---- MODULE Spec2Model ----
(***************************************************************************)
(* A model of build.py: the dependency check (checkDeps), the command      *)
(* runner (run_command) and the orchestration (main).                      *)
(*                                                                         *)
(* The program is sequential; pc is the position of the single thread.     *)
(* The environment is: which tool names `which` resolves (env), whether    *)
(* /bin/sh exists (shell), the directories that exist (fs), and what each  *)
(* child process does (chosen when the child is waited for).               *)
(*                                                                         *)
(* Children write ASCII text; os.makedirs fails only when the directory    *)
(* exists.                                                                 *)
(*                                                                         *)
(* Spec     is one run of main() in an environment whose shell exists.     *)
(* LiveSpec is Spec with the progress a sequential program makes.          *)
(* UnitSpec calls run_command and the directory-ensure step of main        *)
(*          directly, a bounded number of times, in environments that      *)
(*          may lack the shell or the command's executable.                *)
(***************************************************************************)
EXTENDS Integers, Sequences, FiniteSets, TLC

VARIABLES
    pc,            \* position of the program
    env,           \* env[d]: `which d` resolves d
    shell,         \* /bin/sh can be executed
    fs,            \* the directories that exist
    i,             \* checkDeps: index of the next dependency of the for loop
    missing_deps,  \* checkDeps: missing_deps
    ret,           \* checkDeps: its return value ("none" before it returns)
    out,           \* the lines printed on the program's standard output
    live,          \* number of child processes spawned and not yet waited for
    spawns,        \* the command line of every child spawned, in order
    command,       \* run_command: its argument
    proc,          \* run_command: process (returncode, stdout, stderr) after communicate
    mark,          \* run_command: Len(out) when it was entered
    site,          \* run_command: where it returns to
    invoked,       \* the arguments of the calls of run_command, in order
    rcs,           \* main: the exit status seen by each completed call of run_command
    mkdirs,        \* number of calls of os.makedirs
    raised,        \* an exception is propagating (uncaught in main)
    exitStatus,    \* exit status of the python process ("none" while running)
    ncalls,        \* UnitSpec: number of operations the harness has started
    calls,         \* UnitSpec: summary of the last calls of run_command
    fsPrev,        \* UnitSpec: fs before the last ensure step
    ensures        \* UnitSpec: number of consecutive ensure steps just performed

vars == <<pc, env, shell, fs, i, missing_deps, ret, out, live, spawns, command,
          proc, mark, site, invoked, rcs, mkdirs, raised, exitStatus,
          ncalls, calls, fsPrev, ensures>>

---------------------------------------------------------------------------
(* Bounds *)

\* longest captured stdout / stderr of a child, in bytes
MaxOut == 1

\* number of operations the harness of UnitSpec performs
MaxCalls == 2

---------------------------------------------------------------------------
(* Constants of the program *)

dependencies == <<"figlet", "argc", "wget", "curl", "telnet", "ssh", "mosh", "bash">>

Deps == {dependencies[k] : k \in 1..Len(dependencies)}

EchoCmd == "echo 'Compiling source code...'"

BuildCmd == "argc --argc-build Main.sh dist/vmodem99-a"

DistDir == "dist"

MsgRemedy == "Please install the missing dependencies and try again."

MsgSatisfied == "All dependencies are satisfied."

MsgBuilding == "Building the project..."

MsgCompleted == "Build completed successfully."

\* print("Missing dependencies:", s): the two arguments separated by a space
MissingLine(s) == "Missing dependencies:" \o " " \o s

ErrorLine(cmd) == "Error running command: " \o cmd

\* f"which {dep}"
WhichCmd(dep) == "which " \o dep

---------------------------------------------------------------------------
(* Library functions, as the code uses them *)

\* ", ".join(s)
RECURSIVE Join(_)
Join(s) ==
    IF s = <<>> THEN ""
    ELSE IF Len(s) = 1 THEN s[1]
    ELSE s[1] \o ", " \o Join(Tail(s))

\* the bytes a child may write: 'e', 'n'
ByteVals == {101, 110}

Chr(b) == CASE b = 101 -> "e" [] b = 110 -> "n"

\* bytes.decode() on ASCII bytes
RECURSIVE Decode(_)
Decode(bs) == IF bs = <<>> THEN "" ELSE Chr(Head(bs)) \o Decode(Tail(bs))

ByteStrings == UNION {[1..n -> ByteVals] : n \in 0..MaxOut}

\* the diagnostic /bin/sh writes to stderr when it finds no executable,
\* abstracted to one byte
NotFoundBytes == <<110>>

\* exit statuses of a child that ran; 127 is also what sh exits with when it
\* finds no executable
RetCodes == {0, 1, 127}

---------------------------------------------------------------------------
(* The environment *)

Envs == [Deps -> BOOLEAN]

NoProc == [kind |-> "none", returncode |-> -1, stdout |-> <<>>, stderr |-> <<>>]

\* `which dep` exits 0 when dep is resolvable on the search path, 1 otherwise
WhichStatus(dep) == IF env[dep] THEN 0 ELSE 1

\* the executable the shell needs for cmd; echo is a builtin of the shell
ExecAvailable(cmd) == IF cmd = BuildCmd THEN env["argc"] ELSE TRUE

\* what a child running `sh -c cmd` may do: the command runs and exits with
\* any status and any captured output, or the shell finds no executable,
\* writes its diagnostic and exits 127
Outcomes(cmd) ==
    IF ExecAvailable(cmd)
    THEN {[kind |-> "ran", returncode |-> rc, stdout |-> so, stderr |-> se] :
            rc \in RetCodes, so \in ByteStrings, se \in ByteStrings}
    ELSE {[kind |-> "no_exec", returncode |-> 127, stdout |-> <<>>,
           stderr |-> NotFoundBytes]}

---------------------------------------------------------------------------
(* checkDeps *)

\* line 32: main calls checkDeps; lines 19-20
CallCheckDeps ==
    /\ pc = "main"
    /\ i' = 1
    /\ missing_deps' = <<>>
    /\ pc' = "for_dep"
    /\ UNCHANGED <<env, shell, fs, ret, out, live, spawns, command, proc, mark,
                   site, invoked, rcs, mkdirs, raised, exitStatus,
                   ncalls, calls, fsPrev, ensures>>

\* line 23: subprocess.call spawns `which dep` through the shell
ProbeSpawn ==
    /\ pc = "for_dep"
    /\ i <= Len(dependencies)
    /\ shell
    /\ live' = live + 1
    /\ spawns' = Append(spawns, WhichCmd(dependencies[i]))
    /\ pc' = "probe_wait"
    /\ UNCHANGED <<env, shell, fs, i, missing_deps, ret, out, command, proc,
                   mark, site, invoked, rcs, mkdirs, raised, exitStatus,
                   ncalls, calls, fsPrev, ensures>>

\* ProbeWait with the missing name put in front of the list
ProbeWaitMutant ==
    /\ pc = "probe_wait"
    /\ live' = live - 1
    /\ missing_deps' = IF WhichStatus(dependencies[i]) # 0
                       THEN <<dependencies[i]>> \o missing_deps
                       ELSE missing_deps
    /\ i' = i + 1
    /\ pc' = "for_dep"
    /\ UNCHANGED <<env, shell, fs, ret, out, spawns, command, proc, mark, site,
                   invoked, rcs, mkdirs, raised, exitStatus,
                   ncalls, calls, fsPrev, ensures>>

\* ProbeWait without the wait: the probe is left running
ProbeLeakMutant ==
    /\ pc = "probe_wait"
    /\ live' = live
    /\ missing_deps' = IF WhichStatus(dependencies[i]) # 0
                       THEN Append(missing_deps, dependencies[i])
                       ELSE missing_deps
    /\ i' = i + 1
    /\ pc' = "for_dep"
    /\ UNCHANGED <<env, shell, fs, ret, out, spawns, command, proc, mark, site,
                   invoked, rcs, mkdirs, raised, exitStatus,
                   ncalls, calls, fsPrev, ensures>>

\* lines 23-24: subprocess.call waits for the child and returns its status;
\* a non-zero status appends dep; the loop goes to the next dependency
ProbeWait ==
    /\ pc = "probe_wait"
    /\ live' = live - 1
    /\ missing_deps' = IF WhichStatus(dependencies[i]) # 0
                       THEN Append(missing_deps, dependencies[i])
                       ELSE missing_deps
    /\ i' = i + 1
    /\ pc' = "for_dep"
    /\ UNCHANGED <<env, shell, fs, ret, out, spawns, command, proc, mark, site,
                   invoked, rcs, mkdirs, raised, exitStatus,
                   ncalls, calls, fsPrev, ensures>>

\* lines 26-29: the loop is over; report the missing names and return
CheckDepsReturn ==
    /\ pc = "for_dep"
    /\ i > Len(dependencies)
    /\ out' = IF missing_deps # <<>>
              THEN Append(out, MissingLine(Join(missing_deps)))
              ELSE out
    /\ ret' = (missing_deps = <<>>)
    /\ pc' = "main_guard"
    /\ UNCHANGED <<env, shell, fs, i, missing_deps, live, spawns, command, proc,
                   mark, site, invoked, rcs, mkdirs, raised, exitStatus,
                   ncalls, calls, fsPrev, ensures>>

---------------------------------------------------------------------------
(* main *)

\* MainAbort without the return of line 34: main falls through to the build
MainAbortNoReturnMutant ==
    /\ pc = "main_guard"
    /\ ret = FALSE
    /\ out' = out \o <<MsgRemedy, MsgSatisfied, MsgBuilding>>
    /\ command' = EchoCmd
    /\ invoked' = Append(invoked, EchoCmd)
    /\ mark' = Len(out) + 3
    /\ site' = "ensure"
    /\ pc' = "rc_popen"
    /\ exitStatus' = exitStatus
    /\ UNCHANGED <<env, shell, fs, i, missing_deps, ret, live, spawns, proc,
                   rcs, mkdirs, raised, ncalls, calls, fsPrev, ensures>>

\* lines 32-34 and 46-47: checkDeps returned False; print and return; the
\* interpreter exits with status 0
MainAbort ==
    /\ pc = "main_guard"
    /\ ret = FALSE
    /\ out' = Append(out, MsgRemedy)
    /\ pc' = "done"
    /\ exitStatus' = 0
    /\ UNCHANGED <<env, shell, fs, i, missing_deps, ret, live, spawns, command,
                   proc, mark, site, invoked, rcs, mkdirs, raised,
                   ncalls, calls, fsPrev, ensures>>

\* lines 36-40: checkDeps returned True; two prints, then run_command(echo)
MainBuild ==
    /\ pc = "main_guard"
    /\ ret = TRUE
    /\ out' = out \o <<MsgSatisfied, MsgBuilding>>
    /\ command' = EchoCmd
    /\ invoked' = Append(invoked, EchoCmd)
    /\ mark' = Len(out) + 2
    /\ site' = "ensure"
    /\ pc' = "rc_popen"
    /\ UNCHANGED <<env, shell, fs, i, missing_deps, ret, live, spawns, proc,
                   rcs, mkdirs, raised, exitStatus,
                   ncalls, calls, fsPrev, ensures>>

\* os.makedirs(path): creates the directory; FileExistsError when it exists
Makedirs(dirs, path) ==
    IF path \in dirs
    THEN [fs |-> dirs, raised |-> TRUE, made |-> 1]
    ELSE [fs |-> dirs \cup {path}, raised |-> FALSE, made |-> 1]

\* EnsureStep without the os.path.exists guard
EnsureAlwaysMutant(dirs) == Makedirs(dirs, DistDir)

\* lines 41-42: if not os.path.exists("dist"): os.makedirs("dist")

EnsureStep(dirs) ==
    IF ~(DistDir \in dirs)
    THEN Makedirs(dirs, DistDir)
    ELSE [fs |-> dirs, raised |-> FALSE, made |-> 0]

\* MainEnsureBuild without lines 41-42
MainSkipEnsureMutant ==
    /\ pc = "ensure"
    /\ fs' = fs
    /\ mkdirs' = mkdirs
    /\ raised' = FALSE
    /\ command' = BuildCmd
    /\ invoked' = Append(invoked, BuildCmd)
    /\ mark' = Len(out)
    /\ site' = "final"
    /\ pc' = "rc_popen"
    /\ exitStatus' = exitStatus
    /\ UNCHANGED <<env, shell, i, missing_deps, ret, out, live, spawns, proc,
                   rcs, ncalls, calls, fsPrev, ensures>>

\* lines 41-43: ensure the directory, then run_command(build); an exception
\* of makedirs is not caught: traceback, exit status 1
MainEnsureBuild ==
    /\ pc = "ensure"
    /\ LET e == EnsureStep(fs) IN
        /\ fs' = e.fs
        /\ mkdirs' = mkdirs + e.made
        /\ raised' = e.raised
        /\ command' = IF e.raised THEN command ELSE BuildCmd
        /\ invoked' = IF e.raised THEN invoked ELSE Append(invoked, BuildCmd)
        /\ mark' = IF e.raised THEN mark ELSE Len(out)
        /\ site' = IF e.raised THEN site ELSE "final"
        /\ pc' = IF e.raised THEN "done" ELSE "rc_popen"
        /\ exitStatus' = IF e.raised THEN 1 ELSE exitStatus
    /\ UNCHANGED <<env, shell, i, missing_deps, ret, out, live, spawns, proc,
                   rcs, ncalls, calls, fsPrev, ensures>>

\* line 44 and 46-47: the last print; main returns; exit status 0
MainFinal ==
    /\ pc = "final"
    /\ out' = Append(out, MsgCompleted)
    /\ pc' = "done"
    /\ exitStatus' = 0
    /\ UNCHANGED <<env, shell, fs, i, missing_deps, ret, live, spawns, command,
                   proc, mark, site, invoked, rcs, mkdirs, raised,
                   ncalls, calls, fsPrev, ensures>>

---------------------------------------------------------------------------
(* run_command *)

\* line 8: subprocess.Popen(command, shell=True, ...) starts /bin/sh -c command
Popen ==
    /\ pc = "rc_popen"
    /\ shell
    /\ live' = live + 1
    /\ spawns' = Append(spawns, command)
    /\ pc' = "rc_communicate"
    /\ UNCHANGED <<env, shell, fs, i, missing_deps, ret, out, command, proc,
                   mark, site, invoked, rcs, mkdirs, raised, exitStatus,
                   ncalls, calls, fsPrev, ensures>>

\* what the harness keeps of a call of run_command
Summary(cmd, kind, rc, report, exc) ==
    [command |-> cmd, kind |-> kind,
     status |-> IF exc THEN "none" ELSE IF rc = 0 THEN "zero" ELSE "nonzero",
     report |-> report, raised |-> exc]

\* the last two summaries
Last2(s) == IF Len(s) <= 2 THEN s ELSE SubSeq(s, Len(s) - 1, Len(s))

\* line 8: /bin/sh cannot be executed: Popen raises FileNotFoundError, which
\* run_command does not catch; nothing is printed by run_command
PopenRaises ==
    /\ pc = "rc_popen"
    /\ ~shell
    /\ site = "unit"
    /\ raised' = TRUE
    /\ calls' = Last2(Append(calls, Summary(command, "no_shell", -1, <<>>, TRUE)))
    /\ pc' = "unit"
    /\ UNCHANGED <<env, shell, fs, i, missing_deps, ret, out, live, spawns,
                   command, proc, mark, site, invoked, rcs, mkdirs, exitStatus,
                   ncalls, fsPrev, ensures>>

\* line 9: communicate() reads both pipes to the end and waits for the child
Communicate ==
    /\ pc = "rc_communicate"
    /\ \E r \in Outcomes(command) : proc' = r
    /\ live' = live - 1
    /\ pc' = "rc_report"
    /\ UNCHANGED <<env, shell, fs, i, missing_deps, ret, out, spawns, command,
                   mark, site, invoked, rcs, mkdirs, raised, exitStatus,
                   ncalls, calls, fsPrev, ensures>>

\* ReportLines printing stdout on failure too
ReportBothMutant(cmd, p) ==
    IF p.returncode # 0
    THEN <<ErrorLine(cmd), Decode(p.stderr), Decode(p.stdout)>>
    ELSE <<Decode(p.stdout)>>

\* lines 11-15: the lines run_command prints for a finished child
ReportLines(cmd, p) ==
    IF p.returncode # 0
    THEN <<ErrorLine(cmd), Decode(p.stderr)>>
    ELSE <<Decode(p.stdout)>>

\* lines 11-15
Report ==
    /\ pc = "rc_report"
    /\ out' = out \o ReportLines(command, proc)
    /\ pc' = "rc_return"
    /\ UNCHANGED <<env, shell, fs, i, missing_deps, ret, live, spawns, command,
                   proc, mark, site, invoked, rcs, mkdirs, raised, exitStatus,
                   ncalls, calls, fsPrev, ensures>>

\* Return that ends the program with status 1 when the command failed
ReturnAbortMutant ==
    /\ pc = "rc_return"
    /\ rcs' = Append(rcs, proc.returncode)
    /\ calls' = calls
    /\ proc' = NoProc
    /\ pc' = IF proc.returncode # 0 THEN "done" ELSE site
    /\ exitStatus' = IF proc.returncode # 0 THEN 1 ELSE exitStatus
    /\ UNCHANGED <<env, shell, fs, i, missing_deps, ret, out, live, spawns,
                   command, mark, site, invoked, mkdirs, raised,
                   ncalls, fsPrev, ensures>>

\* Return that runs a failed command once more
ReturnRetryMutant ==
    /\ pc = "rc_return"
    /\ rcs' = Append(rcs, proc.returncode)
    /\ calls' = calls
    /\ proc' = NoProc
    /\ pc' = IF proc.returncode # 0 /\ Len(rcs) < 2 THEN "rc_popen" ELSE site
    /\ exitStatus' = exitStatus
    /\ UNCHANGED <<env, shell, fs, i, missing_deps, ret, out, live, spawns,
                   command, mark, site, invoked, mkdirs, raised,
                   ncalls, fsPrev, ensures>>

\* run_command returns None whatever the exit status was; its locals die
Return ==
    /\ pc = "rc_return"
    /\ rcs' = IF site = "unit" THEN rcs ELSE Append(rcs, proc.returncode)
    /\ calls' = IF site = "unit"
                THEN Last2(Append(calls,
                        Summary(command, proc.kind, proc.returncode,
                                SubSeq(out, mark + 1, Len(out)), FALSE)))
                ELSE calls
    /\ proc' = NoProc
    /\ pc' = site
    /\ exitStatus' = exitStatus
    /\ UNCHANGED <<env, shell, fs, i, missing_deps, ret, out, live, spawns,
                   command, mark, site, invoked, mkdirs, raised,
                   ncalls, fsPrev, ensures>>

---------------------------------------------------------------------------
(* One run of the program *)

Init ==
    /\ pc = "main"
    /\ env \in Envs
    /\ shell = TRUE
    /\ fs \in SUBSET {DistDir}
    /\ i = 0
    /\ missing_deps = <<>>
    /\ ret = FALSE
    /\ out = <<>>
    /\ live = 0
    /\ spawns = <<>>
    /\ command = ""
    /\ proc = NoProc
    /\ mark = 0
    /\ site = "none"
    /\ invoked = <<>>
    /\ rcs = <<>>
    /\ mkdirs = 0
    /\ raised = FALSE
    /\ exitStatus = -1
    /\ ncalls = 0
    /\ calls = <<>>
    /\ fsPrev = fs
    /\ ensures = 0

Next ==
    \/ CallCheckDeps
    \/ ProbeSpawn
    \/ ProbeWait
    \/ CheckDepsReturn
    \/ MainAbort
    \/ MainBuild
    \/ Popen
    \/ Communicate
    \/ Report
    \/ Return
    \/ MainEnsureBuild
    \/ MainFinal

Spec == Init /\ [][Next]_vars

\* the program is one thread that runs until main returns
LiveSpec == Init /\ [][Next]_vars /\ WF_vars(Next)

---------------------------------------------------------------------------
(* run_command and the ensure step called directly *)

AllPresent == [d \in Deps |-> TRUE]

\* the harness runs with every tool installed, or with argc removed
UnitEnvs == {AllPresent, [AllPresent EXCEPT !["argc"] = FALSE]}

UnitCommands == {EchoCmd, BuildCmd}

UnitInit ==
    /\ pc = "unit"
    /\ env = AllPresent
    /\ shell = TRUE
    /\ fs \in SUBSET {DistDir}
    /\ i = 0
    /\ missing_deps = <<>>
    /\ ret = FALSE
    /\ out = <<>>
    /\ live = 0
    /\ spawns = <<>>
    /\ command = ""
    /\ proc = NoProc
    /\ mark = 0
    /\ site = "none"
    /\ invoked = <<>>
    /\ rcs = <<>>
    /\ mkdirs = 0
    /\ raised = FALSE
    /\ exitStatus = -1
    /\ ncalls = 0
    /\ calls = <<>>
    /\ fsPrev = fs
    /\ ensures = 0

\* the harness sets the environment up, starts a fresh capture of the
\* program's standard output and calls run_command(cmd)
UnitCallRun ==
    /\ pc = "unit"
    /\ ncalls < MaxCalls
    /\ \E cmd \in UnitCommands, e \in UnitEnvs, sh \in BOOLEAN :
        /\ command' = cmd
        /\ env' = e
        /\ shell' = sh
        /\ invoked' = Append(invoked, cmd)
    /\ out' = <<>>
    /\ mark' = 0
    /\ site' = "unit"
    /\ raised' = FALSE
    /\ ensures' = 0
    /\ ncalls' = ncalls + 1
    /\ pc' = "rc_popen"
    /\ UNCHANGED <<fs, i, missing_deps, ret, live, spawns, proc, rcs,
                   mkdirs, exitStatus, calls, fsPrev>>

\* the harness performs lines 41-42
UnitEnsure ==
    /\ pc = "unit"
    /\ ncalls < MaxCalls
    /\ LET e == EnsureStep(fs) IN
        /\ fs' = e.fs
        /\ mkdirs' = mkdirs + e.made
        /\ raised' = e.raised
    /\ fsPrev' = fs
    /\ ensures' = ensures + 1
    /\ ncalls' = ncalls + 1
    /\ pc' = "unit"
    /\ UNCHANGED <<env, shell, i, missing_deps, ret, out, live, spawns, command,
                   proc, mark, site, invoked, rcs, exitStatus, calls>>

UnitNext ==
    \/ UnitCallRun
    \/ UnitEnsure
    \/ Popen
    \/ PopenRaises
    \/ Communicate
    \/ Report
    \/ Return

UnitSpec == UnitInit /\ [][UnitNext]_vars

---------------------------------------------------------------------------
(* Vocabulary of the properties *)

Range(s) == {s[k] : k \in 1..Len(s)}

IsPrefix(s, t) == Len(s) <= Len(t) /\ s = SubSeq(t, 1, Len(s))

AllResolvable == \A d \in Deps : env[d]

AnyMissing == \E d \in Deps : ~env[d]

\* the probes of the whole dependency list, in order
AllProbes == [k \in 1..Len(dependencies) |-> WhichCmd(dependencies[k])]

ProbeCmds == {WhichCmd(d) : d \in Deps}

\* the children that run_command spawned, in order
RunnerSpawns == SelectSeq(spawns, LAMBDA c : c \notin ProbeCmds)

Aborted == pc = "done" /\ ret = FALSE /\ exitStatus # -1

Completed == pc = "done" /\ Len(out) > 0 /\ out[Len(out)] = MsgCompleted

\* what the call of run_command in progress has printed
CallReport == SubSeq(out, mark + 1, Len(out))

---------------------------------------------------------------------------
(* Properties *)

\* C1: when checkDeps returns, it has probed every name of the fixed list, in
\* order; it returns True iff no name is unresolvable; and the missing list
\* is exactly the unresolvable names, each once, in the order of the list.
C1_CheckDeps ==
    pc = "main_guard" =>
        /\ spawns = AllProbes
        /\ ret = AllResolvable
        /\ missing_deps = SelectSeq(dependencies, LAMBDA d : ~env[d])

C1_Witness ==
    /\ pc = "main_guard"
    /\ missing_deps = <<"argc", "telnet", "mosh">>
    /\ ret = FALSE

\* C2: in a run with an unresolvable dependency no directory is created,
\* run_command is never called, no child other than the probes is spawned,
\* neither the confirmation nor the completion message is printed, and the
\* run ends in the aborted terminal state.
C2_Safe ==
    AnyMissing =>
        /\ mkdirs = 0
        /\ fs = fsPrev
        /\ invoked = <<>>
        /\ RunnerSpawns = <<>>
        /\ MsgSatisfied \notin Range(out)
        /\ MsgCompleted \notin Range(out)
        /\ (pc = "done" => Aborted)

C2_Abort == [](C2_Safe) /\ [](AnyMissing => <>Aborted)

C2_Witness ==
    /\ Aborted
    /\ missing_deps = <<"mosh">>
    /\ out = <<MissingLine("mosh"), MsgRemedy>>

\* C3: in a run in which every dependency is resolvable the completion
\* message is eventually printed, whatever the exit statuses of the commands.
C3_Completes == [](AllResolvable => <>Completed)

C3_Witness ==
    /\ Completed
    /\ AllResolvable
    /\ rcs = <<1, 127>>

\* C4: the process exits with a non-zero status iff a dependency is missing.
C4_ExitStatus == pc = "done" => ((exitStatus # 0) <=> AnyMissing)

\* C5: when run_command has reported, the error line naming the command is
\* printed iff the exit status is non-zero; on status zero the report is the
\* decoded stdout alone; on non-zero status it is the error line and the
\* decoded stderr alone.
C5_Report ==
    pc = "rc_return" =>
        /\ (ErrorLine(command) \in Range(CallReport)) <=> (proc.returncode # 0)
        /\ proc.returncode = 0 => CallReport = <<Decode(proc.stdout)>>
        /\ proc.returncode # 0 =>
              CallReport = <<ErrorLine(command), Decode(proc.stderr)>>

C5_Witness ==
    /\ pc = "rc_return"
    /\ proc.returncode # 0
    /\ proc.stdout = <<101>>
    /\ proc.stderr = <<110>>
    /\ command = BuildCmd

\* C6: a call of run_command whose command could not be spawned (no shell,
\* or no executable) and a call of the same command that ran and exited
\* non-zero never produce the same outcome.
C6_SpawnFailureDistinct ==
    \A a \in 1..Len(calls), b \in 1..Len(calls) :
        (/\ calls[a].kind \in {"no_shell", "no_exec"}
         /\ calls[b].kind = "ran"
         /\ calls[b].status = "nonzero"
         /\ calls[a].command = calls[b].command)
        => <<calls[a].report, calls[a].raised>> # <<calls[b].report, calls[b].raised>>

\* C7: after the ensure step the output directory exists, exactly once, and
\* no error was raised; a second ensure step in succession changes nothing.
C7_EnsureIdempotent ==
    ensures >= 1 =>
        /\ Cardinality({p \in fs : p = DistDir}) = 1
        /\ ~raised
        /\ (ensures >= 2 => fs = fsPrev)

C7_Witness ==
    /\ ensures = 2
    /\ mkdirs = 1
    /\ fs = {DistDir}

\* C8: at most one child is live at any time, and none is live when
\* subprocess.call, checkDeps, run_command or main has returned.
C8_Reaped ==
    /\ live <= 1
    /\ pc \in {"for_dep", "main_guard", "rc_report", "rc_return", "ensure",
               "final", "done", "unit"} => live = 0

C8_Witness ==
    /\ pc = "done"
    /\ Len(spawns) = Len(dependencies) + 2
    /\ live = 0

\* C9: a directory is created or a command is run only after checkDeps has
\* probed the whole list and returned True; and whenever the build command
\* is invoked the output directory exists.
C9_Ordering ==
    /\ (mkdirs > 0 \/ fs # fsPrev \/ invoked # <<>> \/ RunnerSpawns # <<>>) =>
          /\ pc \notin {"main", "for_dep", "probe_wait", "main_guard"}
          /\ ret = TRUE
          /\ IsPrefix(AllProbes, spawns)
    /\ (BuildCmd \in Range(invoked) \/ BuildCmd \in Range(spawns)) =>
          DistDir \in fs

C9_Witness ==
    /\ pc = "rc_communicate"
    /\ command = BuildCmd
    /\ mkdirs = 1

\* C10: run_command is called with the echo command and then with the build
\* command, each once and each spawning one child; the echo call has
\* returned before the directory is ensured; and when every dependency is
\* resolvable both calls are eventually made, whatever the first one's status.
C10_Safe ==
    /\ IsPrefix(invoked, <<EchoCmd, BuildCmd>>)
    /\ IsPrefix(RunnerSpawns, invoked)
    /\ Len(rcs) <= Len(RunnerSpawns)
    /\ Len(invoked) <= 1 => (mkdirs = 0 /\ fs = fsPrev)
    /\ Len(invoked) = 2 => Len(rcs) >= 1
    /\ (pc = "done" /\ ret) => (invoked = <<EchoCmd, BuildCmd>> /\ Len(rcs) = 2)

C10_TwoInvocations ==
    /\ [](C10_Safe)
    /\ [](AllResolvable => <>(RunnerSpawns = <<EchoCmd, BuildCmd>>))

C10_Witness ==
    /\ pc = "rc_communicate"
    /\ RunnerSpawns = <<EchoCmd, BuildCmd>>
    /\ rcs = <<127>>
    /\ fs # fsPrev

====
